---- MODULE Spec2Model ----
(***************************************************************************)
(* Model of Adobe-Challenge/process_pdfs.py: the batch driver process_pdfs *)
(* and the per-document function extract_outline_from_pdf (native TOC      *)
(* mapping, font statistics, thresholds, classification, sort, dedup and   *)
(* title resolution).                                                      *)
(*                                                                         *)
(* Representation.  Text is a TLA+ string, read character by character    *)
(* with SubSeq.  A raw font size is an integer number of hundredths of a   *)
(* point; round(size, 1) gives tenths of a point; a threshold             *)
(* body * factor is kept in hundredths (tenths times a factor in tenths).  *)
(* The nested page/block/line/span loops are flattened: a document's      *)
(* spans are the sequence of the spans of its text blocks (type 0) in the  *)
(* order the loops visit them, each carrying its 0-based page number.      *)
(***************************************************************************)
EXTENDS Integers, Sequences, FiniteSets, TLC

(***************************************************************************)
(* Bounds of the model.                                                    *)
(***************************************************************************)
MaxDocs == 2        \* files in the input directory
MaxSpans == 3       \* spans of a document whose headings are ordered
MaxToc == 2         \* entries of a native outline

(***************************************************************************)
(* Python string operations, on the ASCII characters the inputs use.       *)
(***************************************************************************)
Char(s, i) == SubSeq(s, i, i)

UpperChars == "ABCDEFGHIJKLMNOPQRSTUVWXYZ"
LowerChars == "abcdefghijklmnopqrstuvwxyz"
DigitChars == "0123456789"
RomanChars == "IVXLCDM"
SpaceChars == " "

InChars(c, set) == \E i \in 1..Len(set) : Char(set, i) = c

IsUpperChar(c) == InChars(c, UpperChars)
IsLowerChar(c) == InChars(c, LowerChars)
IsAlphaChar(c) == IsUpperChar(c) \/ IsLowerChar(c)
IsDigitChar(c) == InChars(c, DigitChars)
IsSpaceChar(c) == InChars(c, SpaceChars)

LowerChar(c) ==
    IF IsUpperChar(c)
    THEN Char(LowerChars, CHOOSE i \in 1..Len(UpperChars) : Char(UpperChars, i) = c)
    ELSE c

UpperChar(c) ==
    IF IsLowerChar(c)
    THEN Char(UpperChars, CHOOSE i \in 1..Len(LowerChars) : Char(LowerChars, i) = c)
    ELSE c

RECURSIVE Lower(_)
Lower(s) == IF s = "" THEN "" ELSE LowerChar(Char(s, 1)) \o Lower(SubSeq(s, 2, Len(s)))

RECURSIVE Upper(_)
Upper(s) == IF s = "" THEN "" ELSE UpperChar(Char(s, 1)) \o Upper(SubSeq(s, 2, Len(s)))

RECURSIVE LStrip(_)
LStrip(s) ==
    IF s # "" /\ IsSpaceChar(Char(s, 1)) THEN LStrip(SubSeq(s, 2, Len(s))) ELSE s

RECURSIVE RStrip(_)
RStrip(s) ==
    IF s # "" /\ IsSpaceChar(Char(s, Len(s))) THEN RStrip(SubSeq(s, 1, Len(s) - 1)) ELSE s

Strip(s) == RStrip(LStrip(s))

StartsWith(s, p) == Len(s) >= Len(p) /\ SubSeq(s, 1, Len(p)) = p

Contains(s, p) == \E i \in 1..(Len(s) - Len(p) + 1) : SubSeq(s, i, i + Len(p) - 1) = p

AnyAlpha(s) == \E i \in 1..Len(s) : IsAlphaChar(Char(s, i))

IsNumeric(s) == s # "" /\ \A i \in 1..Len(s) : IsDigitChar(Char(s, i))

\* str.isupper(): at least one cased character and no lowercase one.
IsUpperStr(s) ==
    /\ \E i \in 1..Len(s) : IsUpperChar(Char(s, i))
    /\ \A i \in 1..Len(s) : ~IsLowerChar(Char(s, i))

\* str.istitle(): an uppercase character only after an uncased one, a
\* lowercase character only after a cased one, and at least one cased.
IsTitle(s) ==
    /\ AnyAlpha(s)
    /\ \A i \in 1..Len(s) :
          LET prevCased == i > 1 /\ IsAlphaChar(Char(s, i - 1))
          IN  /\ IsUpperChar(Char(s, i)) => ~prevCased
              /\ IsLowerChar(Char(s, i)) => prevCased

\* re.match(r"^\d+\.\s*$", s)
MatchNumberPeriod(s) ==
    \E k \in 1..Len(s) :
       /\ \A i \in 1..k : IsDigitChar(Char(s, i))
       /\ k < Len(s) /\ Char(s, k + 1) = "."
       /\ \A i \in (k + 2)..Len(s) : IsSpaceChar(Char(s, i))

\* re.match(r"^[IVXLCDM]+\.$", s)
MatchRomanPeriod(s) ==
    /\ Len(s) >= 2
    /\ Char(s, Len(s)) = "."
    /\ \A i \in 1..(Len(s) - 1) : InChars(Char(s, i), RomanChars)

\* str.split(sep) for a one-character separator: the parts, in order.
RECURSIVE SplitFrom(_, _, _)
SplitFrom(s, sep, acc) ==
    IF s = "" THEN <<acc>>
    ELSE IF Char(s, 1) = sep
         THEN <<acc>> \o SplitFrom(SubSeq(s, 2, Len(s)), sep, "")
         ELSE SplitFrom(SubSeq(s, 2, Len(s)), sep, acc \o Char(s, 1))

Split(s, sep) == SplitFrom(s, sep, "")

InSeq(x, seq) == \E i \in 1..Len(seq) : seq[i] = x

(***************************************************************************)
(* Program constants.                                                      *)
(***************************************************************************)
H1_FACTOR == 16         \* 1.6, in tenths
H2_FACTOR == 13         \* 1.3, in tenths
H3_FACTOR == 11         \* 1.1, in tenths
MinTextLen == 5
TitleMaxLen == 50

NoiseLiteral == "G.MAMATHA, CET, CBIT"
NoisePrefixes == <<"figure", "table", "formula", "example", "g.mamatha", "source:">>
TitleMarker == "UNIT-IV"
ErrorTitlePrefix == "Processing Error for "
ErrorTextPrefix == "Error: "
IntNotIterable == "argument of type 'int' is not iterable"

\* round(span["size"], 1): hundredths of a point to tenths of a point.
Round1(raw) == (raw + 5) \div 10

(***************************************************************************)
(* VARIABLES                                                               *)
(*   n, i, attempts, failed : process_pdfs: number of files the glob       *)
(*       found, position of the for loop, how often each file was handed   *)
(*       to extract_outline_from_pdf, whether an earlier file's processing *)
(*       or writing raised                                                 *)
(*   pc : position in process_pdfs / extract_outline_from_pdf              *)
(*   pdf_stem, doc, handle : the current file's stem, its content as the   *)
(*       parsing library exposes it, and the state of the open handle      *)
(*   the others : the locals of extract_outline_from_pdf of the same name; *)
(*       k is the position of the span loops, e the message of the         *)
(*       exception caught at line 194 ("" while none was caught)           *)
(***************************************************************************)
VARIABLES n, i, attempts, failed, pc, pdf_stem, doc, handle, title,
          outline_entries, font_styles, all_sizes, body_font_size,
          h1_threshold, h2_threshold, h3_threshold,
          temp_outline_candidates, k, e, extracted_data

vars == <<n, i, attempts, failed, pc, pdf_stem, doc, handle, title,
          outline_entries, font_styles, all_sizes, body_font_size,
          h1_threshold, h2_threshold, h3_threshold,
          temp_outline_candidates, k, e, extracted_data>>

driverVars == <<n, i, attempts, failed>>
statVars == <<font_styles, all_sizes>>
thresholdVars == <<body_font_size, h1_threshold, h2_threshold, h3_threshold>>

NoDoc == [meta |-> "", toc |-> <<>>, page_count |-> 0, spans |-> <<>>]
NoData == [title |-> "", outline |-> <<>>]

(***************************************************************************)
(* Native outline (TOC) mapping, lines 26-50.                              *)
(***************************************************************************)
\* TocLevel with the clamp of the deeper levels left out.
TocLevel_Unclamped(level) ==
    IF level = 2 THEN "H2" ELSE IF level = 3 THEN "H3" ELSE "H1"

TocLevel(level) ==
    IF level = 2 THEN "H2" ELSE IF level >= 3 THEN "H3" ELSE "H1"

TocEntry(t) == [level |-> TocLevel(t.level), text |-> Strip(t.text), page |-> t.page]

TocKeeps(t) == Strip(t.text) # "" /\ AnyAlpha(Strip(t.text))

RECURSIVE TocOutline(_)
TocOutline(toc) ==
    IF toc = <<>> THEN <<>>
    ELSE (IF TocKeeps(Head(toc)) THEN <<TocEntry(Head(toc))>> ELSE <<>>)
         \o TocOutline(Tail(toc))

\* Lines 19-23: the metadata title, when it is not blank, replaces the stem.
MetadataTitle(stem, meta) == IF meta # "" /\ Strip(meta) # "" THEN Strip(meta) ELSE stem

(***************************************************************************)
(* The boldness test of lines 68 and 130.  span["flags"] is an integer in  *)
(* the parsing library, and Python evaluates  "b" in <int>  to a           *)
(* TypeError; the or-chain is evaluated left to right and stops at the     *)
(* first true operand.                                                     *)
(***************************************************************************)
BoldTest(span) ==
    IF Contains(Lower(span.font), "bold") THEN "bold"
    ELSE IF span.flags \in Int THEN "TypeError"
    ELSE IF Contains(span.flags, "b") THEN "bold"
    ELSE IF InSeq("b", Split(Lower(span.font), "-")) THEN "bold"
    ELSE "normal"

(***************************************************************************)
(* Font statistics, lines 56-76.  font_styles is a dict of dicts, kept     *)
(* here as a sequence of [font, sizes] in insertion order, sizes a         *)
(* sequence of [size, bold, normal] in insertion order.                    *)
(***************************************************************************)
FontIndex(styles, font) ==
    IF \E j \in 1..Len(styles) : styles[j].font = font
    THEN CHOOSE j \in 1..Len(styles) : styles[j].font = font
    ELSE 0

SizeIndex(sizes, size) ==
    IF \E j \in 1..Len(sizes) : sizes[j].size = size
    THEN CHOOSE j \in 1..Len(sizes) : sizes[j].size = size
    ELSE 0

AddChars(styles, font, size, bold, chars) ==
    LET withFont == IF FontIndex(styles, font) = 0
                    THEN Append(styles, [font |-> font, sizes |-> <<>>])
                    ELSE styles
        f == FontIndex(withFont, font)
        sizes0 == withFont[f].sizes
        sizes1 == IF SizeIndex(sizes0, size) = 0
                  THEN Append(sizes0, [size |-> size, bold |-> 0, normal |-> 0])
                  ELSE sizes0
        z == SizeIndex(sizes1, size)
        sizes2 == IF bold
                  THEN [sizes1 EXCEPT ![z].bold = @ + chars]
                  ELSE [sizes1 EXCEPT ![z].normal = @ + chars]
    IN  [withFont EXCEPT ![f].sizes = sizes2]

(***************************************************************************)
(* Body size and thresholds, lines 79-108.                                 *)
(***************************************************************************)
Count(seq, x) == Cardinality({j \in 1..Len(seq) : seq[j] = x})

\* Counter(all_sizes).most_common(1)[0][0]: the most frequent size, the
\* first encountered among equally frequent ones.
MostCommon(seq) ==
    LET best == CHOOSE j \in 1..Len(seq) :
                   /\ \A m \in 1..Len(seq) : Count(seq, seq[m]) <= Count(seq, seq[j])
                   /\ \A m \in 1..(j - 1) : Count(seq, seq[m]) < Count(seq, seq[j])
    IN  seq[best]

\* The (size, normal) pairs in the order the nested dict loops visit them.
RECURSIVE StylePairs(_)
StylePairs(styles) ==
    IF styles = <<>> THEN <<>>
    ELSE Head(styles).sizes \o StylePairs(Tail(styles))

\* Lines 85-90: strictly larger normal counts replace the estimate.
RECURSIVE RefineBody(_, _, _)
RefineBody(pairs, max_normal_chars, body) ==
    IF pairs = <<>> THEN body
    ELSE IF Head(pairs).normal > max_normal_chars
         THEN RefineBody(Tail(pairs), Head(pairs).normal, Head(pairs).size)
         ELSE RefineBody(Tail(pairs), max_normal_chars, body)

BodyFontSize(styles, sizes) ==
    LET first == IF sizes # <<>>
                 THEN RefineBody(StylePairs(styles), 0, MostCommon(sizes))
                 ELSE 0
    IN  IF first = 0 /\ sizes # <<>> THEN MostCommon(sizes) ELSE first

\* body_font_size * FACTOR, in hundredths of a point.  On the sizes of the
\* input documents below, the float product and the float comparison of the
\* program give what these integers give.
Threshold(body, factor) == body * factor

\* font_size >= threshold, font_size in tenths and threshold in hundredths.
AtLeast(font_size, threshold) == font_size * 10 >= threshold

(***************************************************************************)
(* Rejection and classification, lines 127-162.                            *)
(***************************************************************************)
\* HasNoisePrefix without the lower-casing of the text.
HasNoisePrefix_CaseSensitive(text) ==
    \E j \in 1..Len(NoisePrefixes) : StartsWith(text, NoisePrefixes[j])

HasNoisePrefix(text) ==
    \E j \in 1..Len(NoisePrefixes) : StartsWith(Lower(text), NoisePrefixes[j])

Rejected(text) ==
    \/ text = ""
    \/ Len(text) < MinTextLen
    \/ IsNumeric(text)
    \/ MatchNumberPeriod(text)
    \/ MatchRomanPeriod(text)
    \/ Contains(text, NoiseLiteral)
    \/ HasNoisePrefix(text)

\* The level of lines 140-154, "None" when no branch assigns one.
Level(font_size, is_bold, text, body, h1, h2, h3) ==
    IF AtLeast(font_size, h1) /\ is_bold THEN "H1"
    ELSE IF AtLeast(font_size, h2) /\ is_bold THEN "H2"
    ELSE IF AtLeast(font_size, h3) /\ is_bold THEN "H3"
    ELSE IF font_size > body /\ (IsTitle(text) \/ IsUpperStr(text))
         THEN (IF AtLeast(font_size, h2) THEN "H2" ELSE "H3")
    ELSE "None"

Candidate(level, text, page_num, bbox) ==
    [level |-> level, text |-> text, page |-> page_num + 1, bbox |-> bbox]

(***************************************************************************)
(* Sort, deduplication and title resolution, lines 166-185.                *)
(***************************************************************************)
\* KeyLeq with the vertical position left out of the sort key.
KeyLeq_PageOnly(a, b) == a.page <= b.page

\* The sort key (x["page"], x["bbox"][1]), compared as Python compares tuples.
KeyLeq(a, b) == a.page < b.page \/ (a.page = b.page /\ a.bbox[2] <= b.bbox[2])

\* list.sort is stable: an entry goes after every entry whose key is not larger.
RECURSIVE InsertByKey(_, _)
InsertByKey(sorted, entry) ==
    IF sorted = <<>> THEN <<entry>>
    ELSE IF KeyLeq(Head(sorted), entry)
         THEN <<Head(sorted)>> \o InsertByKey(Tail(sorted), entry)
         ELSE <<entry>> \o sorted

RECURSIVE SortCandidates(_)
SortCandidates(cands) ==
    IF cands = <<>> THEN <<>>
    ELSE InsertByKey(SortCandidates(SubSeq(cands, 1, Len(cands) - 1)), cands[Len(cands)])

\* UniqueKey without the lower-casing of the text.
UniqueKey_CaseSensitive(entry) == <<entry.level, entry.text, entry.page>>

UniqueKey(entry) == <<entry.level, Lower(entry.text), entry.page>>

RECURSIVE Dedup(_, _, _)
Dedup(cands, seen_entries, kept) ==
    IF cands = <<>> THEN kept
    ELSE IF UniqueKey(Head(cands)) \notin seen_entries
         THEN Dedup(Tail(cands), seen_entries \cup {UniqueKey(Head(cands))},
                    Append(kept, Head(cands)))
         ELSE Dedup(Tail(cands), seen_entries, kept)

\* ResolveTitle without the length cap on the adopted heading.
ResolveTitle_NoLengthCap(t, stem, entries) ==
    IF t = stem /\ entries # <<>> /\ entries[1].page = 1
    THEN LET t1 == IF entries[1].level = "H1" THEN entries[1].text ELSE t
         IN  IF Contains(Upper(t1), TitleMarker) /\ entries[1].page = 1
             THEN TitleMarker
             ELSE t1
    ELSE t

\* Lines 179-185, with t the title before and stem the file's stem.
ResolveTitle(t, stem, entries) ==
    IF t = stem /\ entries # <<>> /\ entries[1].page = 1
    THEN LET t1 == IF entries[1].level = "H1" /\ Len(entries[1].text) < TitleMaxLen
                   THEN entries[1].text
                   ELSE t
         IN  IF Contains(Upper(t1), TitleMarker) /\ entries[1].page = 1
             THEN TitleMarker
             ELSE t1
    ELSE t

(***************************************************************************)
(* The artifacts extract_outline_from_pdf returns.                         *)
(***************************************************************************)
Data(t, outline) == [title |-> t, outline |-> outline]

\* ErrorData without the error marker in the title.
ErrorData_NoMarker(stem, msg) ==
    [title |-> stem,
     outline |-> <<[level |-> "H1", text |-> ErrorTextPrefix \o msg, page |-> 1]>>]

\* Lines 194-199: the except Exception handler.
ErrorData(stem, msg) ==
    [title |-> ErrorTitlePrefix \o stem,
     outline |-> <<[level |-> "H1", text |-> ErrorTextPrefix \o msg, page |-> 1]>>]

(***************************************************************************)
(* Input documents.  A file is what the parsing library exposes for it:   *)
(* the stem of its name, the metadata title ("" when absent), the native   *)
(* outline and the spans of its text blocks in scan order.                 *)
(***************************************************************************)
PageCount == 2

Span(font, flags, raw, text, page_num, y0) ==
    [font |-> font, flags |-> flags, size |-> raw, text |-> text,
     page |-> page_num, bbox |-> <<72, y0, 300, y0 + 20>>]

Bold(raw, text, page_num, y0) == Span("Arial-Bold", 16, raw, text, page_num, y0)

BodySpan == Bold(1000, "plain body text", 0, 500)

\* Sequences of at most len spans of set, pages in increasing order.
RECURSIVE SpanSeqs(_, _)
SpanSeqs(set, len) ==
    IF len = 0 THEN {<<>>}
    ELSE LET shorter == SpanSeqs(set, len - 1)
         IN  shorter \cup
             {Append(q, x) : q \in {r \in shorter : Len(r) = len - 1}, x \in set}

PagesAscend(spans) ==
    \A j \in 1..(Len(spans) - 1) : spans[j].page <= spans[j + 1].page

File(stem, meta, toc, spans) ==
    [stem |-> stem, meta |-> meta, toc |-> toc, page_count |-> PageCount, spans |-> spans]

ScannedFiles(set, len) ==
    {File("sample", "", <<>>, q) : q \in {r \in SpanSeqs(set, len) : PagesAscend(r)}}

\* Documents that exercise one fragment against a body fragment are one
\* span shorter than those that exercise the order of several headings.
ShortSpans == MaxSpans - 1

\* Headings of two sizes and two spellings, on two pages, out of reading order.
OrderSpans ==
    {BodySpan,
     Bold(1804, "Overview", 0, 300),
     Bold(1696, "OVERVIEW", 0, 100),
     Bold(1900, "Summary", 0, 100),
     Bold(1400, "Overview", 0, 200),
     Bold(1800, "Overview", 1, 50)}

\* Sizes around the thresholds of a 10pt body, in the three casings.
ClassifySpansA ==
    {BodySpan,
     Bold(1050, "Overview", 0, 100),
     Bold(1100, "overview text", 0, 200),
     Bold(1094, "OVERVIEW", 0, 300),
     Bold(1300, "OVERVIEW", 0, 400)}

ClassifySpansB ==
    {BodySpan,
     Bold(1050, "overview text", 0, 100),
     Bold(1296, "Overview", 0, 200),
     Bold(1594, "overview text", 0, 300),
     Bold(1600, "Overview", 0, 400)}

\* Large bold fragments whose text matches a rejection rule, or nearly.
RejectSpansA ==
    {BodySpan,
     Bold(1800, " Abc ", 0, 100),
     Bold(1800, "12345", 0, 100),
     Bold(1800, "1234.", 0, 100),
     Bold(1800, "XVII.", 0, 100)}

RejectSpansB ==
    {BodySpan,
     Bold(1800, "By G.MAMATHA, CET, CBIT", 0, 100),
     Bold(1800, "Figure 3: results", 0, 100),
     Bold(1800, "TABLE 2", 0, 100),
     Bold(1800, "Formula", 0, 100)}

RejectSpansC ==
    {BodySpan,
     Bold(1800, "example 5", 0, 100),
     Bold(1800, "G.Mamatha notes", 0, 100),
     Bold(1800, "Source: WHO", 0, 100),
     Bold(1800, "Sources", 0, 100)}

RejectSpansD ==
    {BodySpan,
     Bold(1800, "   ", 0, 100),
     Bold(1800, "Overview", 0, 100),
     Bold(1800, "XVII", 0, 100)}

\* Fonts the boldness test tells apart, and sizes that tie or dominate.
StatSpans ==
    {Bold(1000, "abc", 0, 100),
     Bold(1200, "abcdef", 0, 100),
     Span("Times-BoldItalic", 20, 1000, "ab", 0, 100),
     Span("Helvetica", 0, 1000, "abcdefgh", 0, 100),
     Span("Helvetica", 16, 1200, "abcd", 0, 100)}

Text49 == "A Heading Of Forty Nine Characters In Title Cases"
Text50 == "A Heading Of Exactly Fifty Characters In Title Cas"

TitleSpans ==
    {BodySpan,
     Bold(1800, Text49, 0, 300),
     Bold(1400, "Summary", 0, 100),
     Bold(1800, "Overview", 1, 100),
     Bold(1800, Text50, 0, 200)}

TitledFiles ==
    {File(f[1], f[2], <<>>, q) :
        f \in {<<"report", "">>, <<"report", " Annual Report ">>,
               <<"report", "report">>, <<"unit-iv notes", "">>},
        q \in {r \in SpanSeqs(TitleSpans, ShortSpans) : PagesAscend(r)}}

TocItem(level, text, page) == [level |-> level, text |-> text, page |-> page]

TocItems ==
    {TocItem(1, "Introduction", 1),
     TocItem(3, " Details ", 2),
     TocItem(2, "2.1", 3),
     TocItem(4, "Annex", 5),
     TocItem(2, "Scope", 1),
     TocItem(1, "  ", 1)}

RECURSIVE TocSeqs(_)
TocSeqs(len) ==
    IF len = 0 THEN {<<>>}
    ELSE LET shorter == TocSeqs(len - 1)
         IN  shorter \cup
             {Append(q, x) : q \in {r \in shorter : Len(r) = len - 1}, x \in TocItems}

OutlinedFiles ==
    {File("report", f[1], toc, f[2]) :
        f \in {<<"", <<>>>>, <<" Annual Report ", <<>>>>,
               <<"  ", <<BodySpan, Bold(1800, "Overview", 0, 100)>>>>},
        toc \in TocSeqs(MaxToc) \ {<<>>}}

Files ==
    ScannedFiles(OrderSpans, MaxSpans) \cup ScannedFiles(StatSpans, MaxSpans)
    \cup ScannedFiles(ClassifySpansA, ShortSpans)
    \cup ScannedFiles(ClassifySpansB, ShortSpans)
    \cup ScannedFiles(RejectSpansA, ShortSpans)
    \cup ScannedFiles(RejectSpansB, ShortSpans)
    \cup ScannedFiles(RejectSpansC, ShortSpans)
    \cup ScannedFiles(RejectSpansD, ShortSpans)
    \cup TitledFiles \cup OutlinedFiles

\* Messages of the exceptions the parsing library raises.
LibraryErrors == {"cannot open broken document"}

(***************************************************************************)
(* Initial state: process_pdfs has listed the input directory.             *)
(***************************************************************************)
Init ==
    /\ n \in {0, MaxDocs}
    /\ i = 1
    /\ attempts = [j \in 1..n |-> 0]
    /\ failed = FALSE
    /\ pc = "loop"
    /\ pdf_stem = ""
    /\ doc = NoDoc
    /\ handle = "none"
    /\ title = ""
    /\ outline_entries = <<>>
    /\ font_styles = <<>>
    /\ all_sizes = <<>>
    /\ body_font_size = 0
    /\ h1_threshold = 0
    /\ h2_threshold = 0
    /\ h3_threshold = 0
    /\ temp_outline_candidates = <<>>
    /\ k = 0
    /\ e = ""
    /\ extracted_data = NoData

\* The locals of one call, as they are when the call begins (lines 12-14).
FreshLocals ==
    /\ outline_entries' = <<>>
    /\ font_styles' = <<>>
    /\ all_sizes' = <<>>
    /\ body_font_size' = 0
    /\ h1_threshold' = 0
    /\ h2_threshold' = 0
    /\ h3_threshold' = 0
    /\ temp_outline_candidates' = <<>>
    /\ k' = 0
    /\ e' = ""
    /\ extracted_data' = NoData

\* The finally clause, lines 200-202.
Closed(h) == IF h = "open" THEN "closed" ELSE h

\* A return statement of extract_outline_from_pdf: the value goes to
\* process_pdfs (line 232) after the finally clause has run.
Return(data) ==
    /\ extracted_data' = data
    /\ handle' = Closed(handle)
    /\ pc' = "write"

\* An exception with message msg reaches the handler of lines 194-199.
Raise(msg) ==
    /\ e' = msg
    /\ Return(ErrorData(pdf_stem, msg))

\* The page loaded last when the span loops stand at position j: load_page
\* and get_text run once per page, before the page's first span, and for
\* the pages without spans too.
PageAt(d, j) ==
    IF j = 0 THEN -1
    ELSE IF j <= Len(d.spans) THEN d.spans[j].page
    ELSE d.page_count - 1

\* Lines 230-232 and 12-14: the loop hands the next file to
\* extract_outline_from_pdf.
BeginDoc ==
    /\ pc = "loop"
    /\ i <= n
    /\ \E f \in Files :
          /\ pdf_stem' = f.stem
          /\ doc' = f
          /\ title' = f.stem
    /\ attempts' = [attempts EXCEPT ![i] = @ + 1]
    /\ handle' = "none"
    /\ FreshLocals
    /\ pc' = "open"
    /\ UNCHANGED <<n, i, failed>>

\* Line 17: fitz.open succeeds.
OpenDoc ==
    /\ pc = "open"
    /\ handle' = "open"
    /\ pc' = "toc"
    /\ UNCHANGED <<driverVars, pdf_stem, doc, title, outline_entries, statVars,
                   thresholdVars, temp_outline_candidates, k, e, extracted_data>>

\* The parsing library raises in fitz.open, in get_toc, or in load_page or
\* get_text of a page; lines 194-199 turn the exception into the error
\* artifact.
LibraryFault ==
    /\ pc \in {"open", "toc", "stats", "classify"}
    /\ pc \in {"stats", "classify"} =>
          k <= Len(doc.spans) + 1 /\ PageAt(doc, k) > PageAt(doc, k - 1)
    /\ \E msg \in LibraryErrors : Raise(msg)
    /\ UNCHANGED <<driverVars, pdf_stem, doc, title, outline_entries, statVars,
                   thresholdVars, temp_outline_candidates, k>>

\* Lines 19-53: metadata title, then the native outline when there is one.
ReadToc ==
    /\ pc = "toc"
    /\ title' = MetadataTitle(title, doc.meta)
    /\ IF doc.toc # <<>>
       THEN /\ outline_entries' = TocOutline(doc.toc)
            /\ Return(Data(title', outline_entries'))
            /\ k' = k
       ELSE /\ pc' = "stats"
            /\ k' = 1
            /\ UNCHANGED <<outline_entries, handle, extracted_data>>
    /\ UNCHANGED <<driverVars, pdf_stem, doc, statVars, thresholdVars,
                   temp_outline_candidates, e>>

\* Lines 65-76: one span of the statistics pass.
StatsStep ==
    /\ pc = "stats"
    /\ k <= Len(doc.spans)
    /\ LET span == doc.spans[k]
           size == Round1(span.size)
           is_bold == BoldTest(span)
       IN  IF is_bold = "TypeError"
           THEN /\ Raise(IntNotIterable)
                /\ UNCHANGED <<statVars, k>>
           ELSE /\ font_styles' = AddChars(font_styles, span.font, size,
                                           is_bold = "bold", Len(span.text))
                /\ all_sizes' = Append(all_sizes, size)
                /\ k' = k + 1
                /\ UNCHANGED <<pc, handle, e, extracted_data>>
    /\ UNCHANGED <<driverVars, pdf_stem, doc, title, outline_entries,
                   thresholdVars, temp_outline_candidates>>

\* Lines 78-116: the body size, the early return of a document without
\* text, and the thresholds.
ComputeThresholds ==
    /\ pc = "stats"
    /\ k > Len(doc.spans)
    /\ body_font_size' = BodyFontSize(font_styles, all_sizes)
    /\ IF body_font_size' = 0
       THEN /\ Return(Data(title, <<>>))
            /\ UNCHANGED <<h1_threshold, h2_threshold, h3_threshold, k>>
       ELSE /\ h1_threshold' = Threshold(body_font_size', H1_FACTOR)
            /\ h2_threshold' = Threshold(body_font_size', H2_FACTOR)
            /\ h3_threshold' = Threshold(body_font_size', H3_FACTOR)
            /\ pc' = "classify"
            /\ k' = 1
            /\ UNCHANGED <<handle, extracted_data>>
    /\ UNCHANGED <<driverVars, pdf_stem, doc, title, outline_entries, statVars,
                   temp_outline_candidates, e>>

\* Lines 126-162: one span of the classification pass.
ClassifyStep ==
    /\ pc = "classify"
    /\ k <= Len(doc.spans)
    /\ LET span == doc.spans[k]
           text == Strip(span.text)
           font_size == Round1(span.size)
           is_bold == BoldTest(span)
           level == Level(font_size, is_bold = "bold", text, body_font_size,
                          h1_threshold, h2_threshold, h3_threshold)
       IN  IF is_bold = "TypeError"
           THEN /\ Raise(IntNotIterable)
                /\ UNCHANGED <<temp_outline_candidates, k>>
           ELSE /\ temp_outline_candidates' =
                      IF ~Rejected(text) /\ level # "None"
                      THEN Append(temp_outline_candidates,
                                  Candidate(level, text, span.page, span.bbox))
                      ELSE temp_outline_candidates
                /\ k' = k + 1
                /\ UNCHANGED <<pc, handle, e, extracted_data>>
    /\ UNCHANGED <<driverVars, pdf_stem, doc, title, outline_entries, statVars,
                   thresholdVars>>

\* Lines 166-185 and 204-207: sort, deduplicate, resolve the title, return.
Sequence ==
    /\ pc = "classify"
    /\ k > Len(doc.spans)
    /\ IF temp_outline_candidates # <<>>
       THEN /\ temp_outline_candidates' = SortCandidates(temp_outline_candidates)
            /\ outline_entries' = Dedup(temp_outline_candidates', {}, outline_entries)
            /\ title' = ResolveTitle(title, pdf_stem, outline_entries')
       ELSE UNCHANGED <<temp_outline_candidates, outline_entries, title>>
    /\ Return(Data(title', outline_entries'))
    /\ UNCHANGED <<driverVars, pdf_stem, doc, statVars, thresholdVars, k, e>>

\* The locals of the finished call are gone when the loop goes on.
NextFile ==
    /\ i' = i + 1
    /\ pc' = "loop"
    /\ pdf_stem' = ""
    /\ doc' = NoDoc
    /\ title' = ""
    /\ handle' = "none"
    /\ FreshLocals

\* Lines 234-238 and 243: the artifact is written.
WriteOutput ==
    /\ pc = "write"
    /\ NextFile
    /\ failed' = (failed \/ e # "")
    /\ UNCHANGED <<n, attempts>>

\* Lines 239-242: writing raises; the exception is reported and the loop
\* goes on.
WriteFault ==
    /\ pc = "write"
    /\ NextFile
    /\ failed' = TRUE
    /\ UNCHANGED <<n, attempts>>

\* Lines 225-227 and the end of the loop of line 230: nothing (more) to do.
Finish ==
    /\ pc = "loop"
    /\ i > n
    /\ pc' = "exit"
    /\ UNCHANGED <<driverVars, pdf_stem, doc, handle, title, outline_entries,
                   statVars, thresholdVars, temp_outline_candidates, k, e,
                   extracted_data>>

Next ==
    \/ BeginDoc
    \/ OpenDoc
    \/ LibraryFault
    \/ ReadToc
    \/ StatsStep
    \/ ComputeThresholds
    \/ ClassifyStep
    \/ Sequence
    \/ WriteOutput
    \/ WriteFault
    \/ Finish

Spec == Init /\ [][Next]_vars

(***************************************************************************)
(* Properties.                                                             *)
(***************************************************************************)
\* extract_outline_from_pdf has returned to process_pdfs.
Returned == pc = "write"

\* The call returned from line 204, after both scans: no native outline, no
\* exception, and a body size was found.
HeuristicDone == Returned /\ e = "" /\ doc.toc = <<>> /\ body_font_size # 0

\* The call returned from line 47.
NativeDone == Returned /\ e = "" /\ doc.toc # <<>>

\* The outline entry was made from this span.
FromSpan(entry, span) ==
    /\ entry.text = Strip(span.text)
    /\ entry.page = span.page + 1
    /\ entry.bbox = span.bbox

\* o is c without some of its members, the others in the same order.
IsSubsequence(o, c) ==
    \E f \in [1..Len(o) -> 1..Len(c)] :
       /\ \A a \in 1..Len(o) : o[a] = c[f[a]]
       /\ \A a \in 1..(Len(o) - 1) : f[a] < f[a + 1]

\* C1: the outline of a heuristic run that completed without a fault is in
\* reading order: every page is in 1..page_count, pages never decrease,
\* entries of one page never decrease in the y0 of the fragment they came
\* from, and the kept entries are in the order the sort gave them.
C1_ReadingOrder ==
    HeuristicDone =>
       LET o == extracted_data.outline
       IN  /\ \A a \in 1..Len(o) :
                /\ o[a].page \in 1..doc.page_count
                /\ \E m \in 1..Len(doc.spans) : FromSpan(o[a], doc.spans[m])
           /\ \A a \in 1..(Len(o) - 1) :
                /\ o[a].page <= o[a + 1].page
                /\ o[a].page = o[a + 1].page => o[a].bbox[2] <= o[a + 1].bbox[2]
           /\ IsSubsequence(o, temp_outline_candidates)

\* Two headings of one page were scanned lower one first, and both are in
\* the outline, upper one first.
C1_Witness ==
    /\ HeuristicDone
    /\ Len(extracted_data.outline) >= 2
    /\ \E j \in 1..Len(doc.spans), m \in 1..Len(doc.spans) :
          /\ j < m
          /\ FromSpan(extracted_data.outline[2], doc.spans[j])
          /\ FromSpan(extracted_data.outline[1], doc.spans[m])
          /\ doc.spans[m].page = doc.spans[j].page
          /\ doc.spans[m].bbox[2] < doc.spans[j].bbox[2]

\* Same level, same page, and texts equal when case is ignored.
SameKey(x, y) == x.level = y.level /\ x.page = y.page /\ Upper(x.text) = Upper(y.text)

\* The candidates, in sorted order, that no earlier candidate shares a key with.
FirstOfKey(c) == {j \in 1..Len(c) : \A m \in 1..(j - 1) : ~SameKey(c[m], c[j])}

\* C8: the final outline holds no two entries of the same level, page and
\* case-insensitive text; of the candidates sharing a key exactly the
\* earliest in (page, y0) order is kept, and a candidate whose key no
\* earlier candidate has is never dropped.
C8_Deduplication ==
    HeuristicDone =>
       LET o == extracted_data.outline
           c == temp_outline_candidates
       IN  /\ \A a \in 1..Len(o), b \in 1..Len(o) : a < b => ~SameKey(o[a], o[b])
           /\ Len(o) = Cardinality(FirstOfKey(c))
           /\ \A j \in FirstOfKey(c) :
                 o[Cardinality({m \in FirstOfKey(c) : m <= j})] = c[j]
           /\ \A a \in 1..Len(o), m \in 1..Len(doc.spans) :
                 LET s == doc.spans[m]
                 IN  (/\ Upper(Strip(s.text)) = Upper(o[a].text)
                      /\ s.page + 1 = o[a].page
                      /\ \E j \in 1..Len(c) : FromSpan(c[j], s) /\ c[j].level = o[a].level)
                     => o[a].bbox[2] <= s.bbox[2]

\* Two candidates of one key, spelled differently, of which one was kept.
C8_Witness ==
    /\ HeuristicDone
    /\ Len(extracted_data.outline) = 1
    /\ \E j \in 1..Len(temp_outline_candidates) :
          /\ SameKey(temp_outline_candidates[j], extracted_data.outline[1])
          /\ temp_outline_candidates[j].text # extracted_data.outline[1].text

\* C3: every entry of a heuristic outline has exactly the fields level, text
\* and page; the bounding box of the candidate is not part of it.
C3_EntryShape ==
    HeuristicDone =>
       \A a \in 1..Len(extracted_data.outline) :
          DOMAIN extracted_data.outline[a] = {"level", "text", "page"}

\* The boldness the specification describes: the family name contains the
\* bold marker, or the bold bit (16) of the style flags is set, or a
\* hyphen-delimited part of the family name is the marker "b".
ClaimedBold(span) ==
    \/ Contains(Lower(span.font), "bold")
    \/ (span.flags \div 16) % 2 = 1
    \/ InSeq("b", Split(Lower(span.font), "-"))

\* The level of the specification's priority list, "None" for rule 5.
ClaimedLevel(span, body) ==
    LET size == Round1(span.size)
        text == Strip(span.text)
        bold == ClaimedBold(span)
    IN  IF bold /\ size * 10 >= body * 16 THEN "H1"
        ELSE IF bold /\ size * 10 >= body * 13 THEN "H2"
        ELSE IF bold /\ size * 10 >= body * 11 THEN "H3"
        ELSE IF size > body /\ ~bold /\ (IsTitle(text) \/ IsUpperStr(text))
             THEN (IF size * 10 >= body * 13 THEN "H2" ELSE "H3")
        ELSE "None"

\* C2: a surviving fragment is classified by the priority list, rule 4
\* applying to non-bold fragments only, so every outline entry has the level
\* the list gives its fragment, and a bold fragment below the H3 threshold
\* is never an entry.
C2_Classification ==
    HeuristicDone =>
       \A a \in 1..Len(extracted_data.outline) :
          \E m \in 1..Len(doc.spans) :
             /\ FromSpan(extracted_data.outline[a], doc.spans[m])
             /\ ClaimedLevel(doc.spans[m], body_font_size) = extracted_data.outline[a].level

\* The rejection rules as claimed, with the given spelling of the source prefix.
ClaimedRejection(text, source) ==
    \/ text = ""
    \/ Len(text) < 5
    \/ IsNumeric(text)
    \/ MatchNumberPeriod(text)
    \/ MatchRomanPeriod(text)
    \/ Contains(text, "G.MAMATHA, CET, CBIT")
    \/ \E prefix \in {"FIGURE", "TABLE", "FORMULA", "EXAMPLE", source, "G.MAMATHA"} :
          StartsWith(Upper(text), prefix)

NoRejectedEntry(source) ==
    HeuristicDone =>
       \A m \in 1..Len(doc.spans) :
          ClaimedRejection(Strip(doc.spans[m].text), source) =>
             \A a \in 1..Len(extracted_data.outline) :
                ~FromSpan(extracted_data.outline[a], doc.spans[m])

\* C4 as stated: a fragment matching a rejection rule, the prefix "source"
\* among them, is never in the heuristic outline.
C4_Rejection_Original == NoRejectedEntry("SOURCE")

\* C4 amended: the same, the prefix being "source:" with its colon.
C4_Rejection == NoRejectedEntry("SOURCE:")

\* A caption ("Figure ...") that is bold and as large as an H1 was scanned
\* and left out.
C4_Witness ==
    /\ HeuristicDone
    /\ \E m \in 1..Len(doc.spans) :
          /\ StartsWith(doc.spans[m].text, "Figure")
          /\ ClaimedRejection(Strip(doc.spans[m].text), "SOURCE:")
          /\ ClaimedLevel(doc.spans[m], body_font_size) = "H1"

\* The native entries the mapper keeps: some letter in the trimmed text.
NativeKept(toc) == {j \in 1..Len(toc) : AnyAlpha(Strip(toc[j].text))}

ClaimedTocLevel(depth) ==
    CASE depth = 1 -> "H1" [] depth = 2 -> "H2" [] depth >= 3 -> "H3"

\* C5: with a native outline, the emitted outline is the native entries that
\* have a letter in their trimmed text, in native order, depth 1, 2 and
\* 3 or more mapped to H1, H2 and H3, text trimmed, page copied; there is no
\* heuristic scan, and the title is the metadata title or the file stem.
C5_NativeOutline ==
    NativeDone =>
       LET o == extracted_data.outline
           kept == NativeKept(doc.toc)
       IN  /\ Len(o) = Cardinality(kept)
           /\ \A j \in kept :
                 o[Cardinality({m \in kept : m <= j})] =
                    [level |-> ClaimedTocLevel(doc.toc[j].level),
                     text |-> Strip(doc.toc[j].text),
                     page |-> doc.toc[j].page]
           /\ font_styles = <<>> /\ all_sizes = <<>> /\ temp_outline_candidates = <<>>
           /\ extracted_data.title =
                 (IF Strip(doc.meta) # "" THEN Strip(doc.meta) ELSE pdf_stem)

\* A native outline with an entry deeper than 3, one dropped for having no
\* letter, and spans a heuristic scan would have made a heading of.
C5_Witness ==
    /\ NativeDone
    /\ \E j \in NativeKept(doc.toc) : doc.toc[j].level > 3
    /\ Cardinality(NativeKept(doc.toc)) < Len(doc.toc)
    /\ doc.spans # <<>>

\* C6: an exception raised while a document is opened, scanned or
\* classified makes its result the error artifact (title beginning with the
\* error marker, one H1 entry on page 1 carrying the message, none of the
\* headings collected so far); and whatever faults, in processing or in
\* writing, every file is handed to extract_outline_from_pdf exactly once,
\* in order: the files before the loop position once, those after it not yet.
C6_FaultContainment ==
    /\ (Returned /\ e # "") =>
          /\ StartsWith(extracted_data.title, "Processing Error for ")
          /\ Len(extracted_data.outline) = 1
          /\ extracted_data.outline[1].level = "H1"
          /\ extracted_data.outline[1].page = 1
          /\ Contains(extracted_data.outline[1].text, e)
    /\ i \in 1..(n + 1)
    /\ \A j \in 1..n :
          attempts[j] = IF j < i \/ (j = i /\ pc # "loop") THEN 1 ELSE 0
    /\ pc = "exit" => i = n + 1

\* The second or a later file faults after a heading was collected, and an
\* earlier file had faulted too.
C6_Witness ==
    /\ Returned
    /\ i > 1
    /\ failed
    /\ e # ""
    /\ temp_outline_candidates # <<>>

\* The title as lines 12-23 leave it, before title resolution.
TitleBefore == IF Strip(doc.meta) # "" THEN Strip(doc.meta) ELSE pdf_stem

\* The first entry is one the title is taken from.
Adoptable(o) ==
    /\ TitleBefore = pdf_stem
    /\ o # <<>>
    /\ o[1].page = 1
    /\ o[1].level = "H1"
    /\ Len(o[1].text) < 50

\* The hard-coded override applies: resolution runs for a first entry on
\* page 1 and the title it arrives at contains the marker.
MarkerCase(o) ==
    /\ TitleBefore = pdf_stem
    /\ o # <<>>
    /\ o[1].page = 1
    /\ Contains(Upper(IF Adoptable(o) THEN o[1].text ELSE TitleBefore), "UNIT-IV")

\* C7: on the heuristic path, the marker override aside, the title becomes
\* the first entry's text exactly when the title still is the file stem
\* and that entry is on page 1, is an H1 and is shorter than 50 characters;
\* in every other case, an empty outline included, the title stays as it was.
C7_TitleResolution ==
    (Returned /\ e = "" /\ doc.toc = <<>> /\ ~MarkerCase(extracted_data.outline)) =>
       extracted_data.title =
          IF Adoptable(extracted_data.outline)
          THEN extracted_data.outline[1].text
          ELSE TitleBefore

\* The title was the file stem and now is the first H1 of page 1.
C7_Witness ==
    /\ HeuristicDone
    /\ ~MarkerCase(extracted_data.outline)
    /\ Adoptable(extracted_data.outline)
    /\ extracted_data.title # pdf_stem
    /\ Len(extracted_data.title) = 49

\* The characters of the spans before position j that have this font and
\* rounded size and this boldness, as the specification defines boldness.
RECURSIVE ClaimedChars(_, _, _, _, _)
ClaimedChars(spans, j, font, size, bold) ==
    IF j = 0 THEN 0
    ELSE ClaimedChars(spans, j - 1, font, size, bold)
         + (IF /\ spans[j].font = font
               /\ Round1(spans[j].size) = size
               /\ ClaimedBold(spans[j]) = bold
            THEN Len(spans[j].text) ELSE 0)

\* C9: the boldness test gives a verdict for every fragment and never
\* faults, and the verdict is the three-way OR; so the statistics pass
\* skips no fragment: each scanned fragment adds its size to the size
\* multiset and its characters to the bold or the normal total of its
\* (font, rounded size) entry.
C9_BoldnessTest ==
    /\ e # IntNotIterable
    /\ pc \in {"stats", "classify"} =>
          LET done == IF pc = "stats" THEN k - 1 ELSE Len(doc.spans)
          IN  /\ all_sizes = [j \in 1..done |-> Round1(doc.spans[j].size)]
              /\ \A j \in 1..done :
                    LET f == FontIndex(font_styles, doc.spans[j].font)
                        z == SizeIndex(font_styles[f].sizes, Round1(doc.spans[j].size))
                        entry == font_styles[f].sizes[z]
                    IN  /\ f # 0 /\ z # 0
                        /\ entry.bold = ClaimedChars(doc.spans, done, doc.spans[j].font,
                                                     entry.size, TRUE)
                        /\ entry.normal = ClaimedChars(doc.spans, done, doc.spans[j].font,
                                                       entry.size, FALSE)

\* The statistics the specification describes, over all spans.
RECURSIVE ClaimedStyles(_, _)
ClaimedStyles(spans, j) ==
    IF j = 0 THEN <<>>
    ELSE AddChars(ClaimedStyles(spans, j - 1), spans[j].font, Round1(spans[j].size),
                  ClaimedBold(spans[j]), Len(spans[j].text))

ClaimedBody(spans) ==
    BodyFontSize(ClaimedStyles(spans, Len(spans)),
                 [j \in 1..Len(spans) |-> Round1(spans[j].size)])

\* C10: for a document with at least one fragment (and no native outline,
\* no fault of the parsing library) the body size is the size of the
\* (font, size) pair with the most non-bold characters, or the most frequent
\* size when no pair has any, and the thresholds are body x 1.6, 1.3, 1.1,
\* in that order above the body size, from the end of the statistics pass
\* on.
C10_BodyAndThresholds ==
    (/\ pc = "classify" \/ Returned
     /\ doc.toc = <<>> /\ doc.spans # <<>> /\ e \notin LibraryErrors) =>
       /\ body_font_size = ClaimedBody(doc.spans)
       /\ h1_threshold = body_font_size * 16
       /\ h2_threshold = body_font_size * 13
       /\ h3_threshold = body_font_size * 11
       /\ body_font_size * 10 < h3_threshold
       /\ h3_threshold < h2_threshold
       /\ h2_threshold < h1_threshold

====
